---- MODULE Spec2Model ----
(***************************************************************************)
(* Static file serving of gotham (src/gotham/src/handler/static_file.rs).  *)
(*                                                                         *)
(* A request is handled in the steps of FileSystemHandler::handle /        *)
(* FileHandler::handle and create_file_response: the path is resolved      *)
(* under the root, the precompressed variants are looked up, the file is   *)
(* opened, its metadata taken, the conditional headers evaluated, the      *)
(* content read and the response composed.                                 *)
(*                                                                         *)
(* Paths are sequences of std::path components; a file name is the         *)
(* sequence of its dot-separated pieces ("doc.html" is <<"doc","html">>).  *)
(* An Option is a sequence of length 0 (None) or 1 (Some).                 *)
(*                                                                         *)
(* Two requests can be in flight: the variables from pc to response are    *)
(* what the running task owns, peer is what the other task owns while it   *)
(* is suspended, and Switch lets the other task run.                       *)
(***************************************************************************)
EXTENDS Integers, Sequences, FiniteSets, TLC

VARIABLES handler, fs, client, pc, instance, request, path, file_path,
          mime_type, file, meta, result, response, peer

vars == <<handler, fs, client, pc, instance, request, path, file_path,
          mime_type, file, meta, result, response, peer>>

\* Bounds of the model: the longest list of request path segments, of
\* Accept-Encoding items and of If-None-Match entity tags.
MaxSegments == 3
MaxAccept == 2
MaxItems == 2

None == <<>>
Some(x) == <<x>>

SeqsUpTo(S, n) == UNION {[1..k -> S] : k \in 0..n}

RECURSIVE SeqToSet(_)
SeqToSet(s) == IF s = <<>> THEN {} ELSE {Head(s)} \cup SeqToSet(Tail(s))

IsPrefix(p, q) == Len(p) <= Len(q) /\ SubSeq(q, 1, Len(p)) = p

(***************************************************************************)
(* std::path                                                               *)
(***************************************************************************)
Normal(n) == [kind |-> "Normal", name |-> n]
ParentDir == [kind |-> "ParentDir", name |-> <<>>]
CurDir == [kind |-> "CurDir", name |-> <<>>]
RootDir == [kind |-> "RootDir", name |-> <<>>]

\* PathBuf::push of one request segment: a segment that is absolute (it
\* starts with "/") replaces the buffer, any other is appended.
PathBuf_push(buf, seg) ==
    IF seg.absolute THEN <<RootDir>> \o seg.comps ELSE buf \o seg.comps

\* PathBuf::from_iter(parts): every part pushed onto an empty buffer.
RECURSIVE PathBuf_from_iter(_, _)
PathBuf_from_iter(buf, parts) ==
    IF parts = <<>> THEN buf
    ELSE PathBuf_from_iter(PathBuf_push(buf, Head(parts)), Tail(parts))

\* Path::components: a "." is dropped unless it leads the path.
components(p) ==
    LET keep == {i \in 1..Len(p) : p[i].kind # "CurDir" \/ i = 1}
        RECURSIVE pick(_)
        pick(i) == IF i > Len(p) THEN <<>>
                   ELSE IF i \in keep THEN <<p[i]>> \o pick(i + 1)
                   ELSE pick(i + 1)
    IN pick(1)

\* PathBuf::pop on a buffer of normal components: the last one is removed,
\* and an empty buffer stays empty.
PathBuf_pop(buf) == IF buf = <<>> THEN buf ELSE SubSeq(buf, 1, Len(buf) - 1)

\* The fold of normalize_path over the components left to visit.
RECURSIVE normalize_fold(_, _)
normalize_fold(acc, comps) ==
    IF comps = <<>> THEN acc
    ELSE LET p == Head(comps)
             next == CASE p.kind = "Normal" -> Append(acc, p)
                       [] p.kind = "ParentDir" -> PathBuf_pop(acc)
                       [] OTHER -> acc
         IN normalize_fold(next, Tail(comps))

\* normalize_path with the fold left out: the components as they came.
normalize_path_unfolded(p) == components(p)

normalize_path(p) == normalize_fold(<<>>, components(p))

\* Path::file_stem / set_extension on a file name: the text after the last
\* dot is the extension, except for a name that only starts with a dot.
file_stem(name) ==
    IF Len(name) = 1 \/ (Len(name) = 2 /\ name[1] = "") THEN name
    ELSE SubSeq(name, 1, Len(name) - 1)

\* Path::with_extension(ext): the stem, a dot, and ext as given.  ext is
\* the sequence of the dot-separated pieces of the extension string, so
\* ".gz" is <<"", "gz">> and "doc.html" becomes "doc..gz".
with_extension(p, ext) ==
    IF p = <<>> \/ p[Len(p)].kind # "Normal" THEN p
    ELSE [p EXCEPT ![Len(p)] = Normal(file_stem(p[Len(p)].name) \o ext)]

(***************************************************************************)
(* The file system                                                         *)
(***************************************************************************)
\* A point in time as std::time::SystemTime holds it: whole seconds since
\* the Unix epoch (negative before it) and the nanoseconds into that second.
Time(s, n) == [secs |-> s, nanos |-> n]

Absent == [kind |-> "absent", readable |-> FALSE, content |-> <<>>, modified |-> None]
Dir(t) == [kind |-> "dir", readable |-> TRUE, content |-> <<>>, modified |-> t]
File(r, c, t) == [kind |-> "file", readable |-> r, content |-> c, modified |-> t]

\* The entry at a path: what is not in the table does not exist.
lookup(f, p) == IF p \in DOMAIN f THEN f[p] ELSE Absent

\* Path::exists
exists(f, p) == lookup(f, p).kind # "absent"

\* Whether a proper prefix of the path names a regular file (open then
\* fails with ENOTDIR, which io::ErrorKind reports as Other).
through_file(f, p) ==
    \E i \in 1..(Len(p) - 1) : lookup(f, SubSeq(p, 1, i)).kind = "file"

\* std::fs::Metadata of an entry: len() and modified().
metadata_of(e) == [len |-> Len(e.content), modified |-> e.modified]

(***************************************************************************)
(* Entity tags and conditional requests                                    *)
(***************************************************************************)
HexDigits == <<"0", "1", "2", "3", "4", "5", "6", "7",
               "8", "9", "a", "b", "c", "d", "e", "f">>

\* format!("{:x}", n): the hexadecimal digits of n, most significant first.
RECURSIVE to_hex(_)
to_hex(n) == IF n < 16 THEN <<HexDigits[n + 1]>>
             ELSE to_hex(n \div 16) \o <<HexDigits[(n % 16) + 1]>>

EntityTag_weak(chars) == [weak |-> TRUE, tag |-> chars]

\* entity_tag with the "-" between size and seconds left out.
entity_tag_unseparated(m) ==
    IF m.modified = None \/ m.modified[1].secs < 0 THEN None
    ELSE Some(EntityTag_weak(to_hex(m.len) \o to_hex(m.modified[1].secs)
                             \o <<".">> \o to_hex(m.modified[1].nanos)))

\* entity_tag: None when modified() fails or lies before the epoch.
entity_tag(m) ==
    IF m.modified = None \/ m.modified[1].secs < 0 THEN None
    ELSE Some(EntityTag_weak(to_hex(m.len) \o <<"-">> \o to_hex(m.modified[1].secs)
                             \o <<".">> \o to_hex(m.modified[1].nanos)))

\* HttpDate::from(SystemTime) of hyper: the time::Tm of the same instant,
\* nanoseconds included.  A date parsed from a header has none.
HttpDate_from(t) == t

\* The order of HttpDate: that of the instants.
HttpDate_le(a, b) == a.secs < b.secs \/ (a.secs = b.secs /\ a.nanos <= b.nanos)

IfNoneMatch_Absent == [kind |-> "Absent", items |-> <<>>]
IfNoneMatch_Any == [kind |-> "Any", items |-> <<>>]
IfNoneMatch_Items(items) == [kind |-> "Items", items |-> items]

\* not_modified reading If-Modified-Since before If-None-Match.
not_modified_date_first(m, if_none_match, if_modified_since) ==
    IF if_modified_since # None
    THEN m.modified # None
         /\ HttpDate_le(HttpDate_from(m.modified[1]), if_modified_since[1])
    ELSE IF if_none_match.kind = "Items"
    THEN entity_tag(m) # None
         /\ entity_tag(m)[1] \in SeqToSet(if_none_match.items)
    ELSE FALSE

not_modified(m, if_none_match, if_modified_since) ==
    IF if_none_match.kind = "Items"
    THEN entity_tag(m) # None
         /\ entity_tag(m)[1] \in SeqToSet(if_none_match.items)
    ELSE IF if_modified_since # None
    THEN m.modified # None
         /\ HttpDate_le(HttpDate_from(m.modified[1]), if_modified_since[1])
    ELSE FALSE

(***************************************************************************)
(* Precompressed variants                                                  *)
(***************************************************************************)
QualityItem(e, q) == [item |-> e, quality |-> q]

\* encoding_extension, as the pieces of the extension string.
encoding_extension(encoding) ==
    CASE encoding = "gzip" -> Some(<<"", "gz">>)
      [] encoding = "br" -> Some(<<"", "br">>)
      [] OTHER -> None

supported_encodings == {"gzip", "br"}

RECURSIVE filter_supported(_)
filter_supported(items) ==
    IF items = <<>> THEN <<>>
    ELSE IF Head(items).item \in supported_encodings
         THEN <<Head(items)>> \o filter_supported(Tail(items))
         ELSE filter_supported(Tail(items))

\* Insertion of x into a list sorted by ascending quality, after the items
\* of equal quality (the sort is stable).
RECURSIVE insert_by_quality(_, _)
insert_by_quality(x, sorted) ==
    IF sorted = <<>> THEN <<x>>
    ELSE IF Head(sorted).quality <= x.quality
         THEN <<Head(sorted)>> \o insert_by_quality(x, Tail(sorted))
         ELSE <<x>> \o sorted

\* accept_items.sort_by_key(|i| i.quality)
RECURSIVE sort_by_quality(_)
sort_by_quality(items) ==
    IF items = <<>> THEN <<>>
    ELSE insert_by_quality(items[Len(items)],
                           sort_by_quality(SubSeq(items, 1, Len(items) - 1)))

\* The first candidate, in the order given, whose file exists.
RECURSIVE first_existing(_, _, _)
first_existing(f, p, items) ==
    IF items = <<>> THEN None
    ELSE LET ext == encoding_extension(Head(items).item)
         IN IF ext # None /\ exists(f, with_extension(p, ext[1]))
            THEN Some([path |-> with_extension(p, ext[1]), encoding |-> Head(items).item])
            ELSE first_existing(f, p, Tail(items))

\* check_compressed_files(path, accept) against the file system f.
check_compressed_files(f, p, accept) ==
    IF accept = None THEN None
    ELSE first_existing(f, p, sort_by_quality(filter_supported(accept[1])))

\* mime_for_path: the type guessed from the extension of the last name.
mime_for_path(p) ==
    LET name == p[Len(p)].name
        ext == IF p = <<>> \/ file_stem(name) = name THEN "" ELSE name[Len(name)]
    IN CASE ext = "html" -> "text/html"
         [] ext = "txt" -> "text/plain"
         [] ext = "css" -> "text/css"
         [] ext = "js" -> "application/javascript"
         [] ext = "gz" -> "application/x-gzip"
         [] OTHER -> "application/octet-stream"

(***************************************************************************)
(* Responses                                                               *)
(***************************************************************************)
StatusCode_Ok == 200
StatusCode_NotModified == 304
StatusCode_Forbidden == 403
StatusCode_NotFound == 404
StatusCode_InternalServerError == 500

\* error_status answering every failure with 403.
error_status_forbidden(kind) == StatusCode_Forbidden

\* error_status answering every failure with 500.
error_status_internal(kind) == StatusCode_InternalServerError

\* error_status on the kind of an io::Error.
error_status(kind) ==
    CASE kind = "NotFound" -> StatusCode_NotFound
      [] kind = "PermissionDenied" -> StatusCode_Forbidden
      [] OTHER -> StatusCode_InternalServerError

\* helpers::http::response::create_response: the status and, with a body,
\* the body and its Content-Type.
create_response(status, body) ==
    [status |-> status,
     content_type |-> IF body = None THEN None ELSE Some(body[1].mime),
     content_encoding |-> None,
     etag |-> None,
     last_modified |-> None,
     body |-> IF body = None THEN <<>> ELSE body[1].data]

\* The response the framework makes of a HandlerError with a status.
handler_error_response(status) == create_response(status, None)

\* append_headers leaving Last-Modified out.
append_headers_etag_only(res, m) ==
    IF entity_tag(m) # None THEN [res EXCEPT !.etag = entity_tag(m)] ELSE res

\* append_headers: ETag when there is an entity tag, Last-Modified when
\* modified() succeeds.
append_headers(res, m) ==
    LET tagged == IF entity_tag(m) # None
                  THEN [res EXCEPT !.etag = entity_tag(m)] ELSE res
    IN IF m.modified # None
       THEN [tagged EXCEPT !.last_modified = Some(HttpDate_from(m.modified[1]))]
       ELSE tagged

NoResult == [kind |-> "Pending", data |-> <<>>, meta |-> None, err |-> ""]
FileResult_NotModified == [kind |-> "NotModified", data |-> <<>>, meta |-> None, err |-> ""]
FileResult_Contents(d, m) == [kind |-> "Contents", data |-> d, meta |-> Some(m), err |-> ""]
Err(k) == [kind |-> "Err", data |-> <<>>, meta |-> None, err |-> k]

(***************************************************************************)
(* Handlers and requests                                                   *)
(***************************************************************************)
FileSystemHandler(root) == [kind |-> "FileSystemHandler", path |-> root]
FileHandler(p) == [kind |-> "FileHandler", path |-> p]

Request(parts, inm, ims, accept) ==
    [parts |-> parts, if_none_match |-> inm, if_modified_since |-> ims,
     accept_encoding |-> accept]

NoRequest == Request(<<>>, IfNoneMatch_Absent, None, None)

\* What the client keeps of the last response that carried an ETag.
NoValidators == [etag |-> None, path |-> <<>>]

\* The outcomes of File::open on a path.
open_outcomes(f, p) ==
    IF through_file(f, p) THEN {"Other"}
    ELSE IF ~exists(f, p) THEN {"NotFound"}
    ELSE IF ~lookup(f, p).readable THEN {"PermissionDenied"}
    ELSE {"Ok", "Other"}

\* The outcomes of File::metadata on an open file.
metadata_outcomes == {"Ok", "Other"}

\* The outcomes of read_to_end on an open file: a directory cannot be read.
read_outcomes(e) == IF e.kind = "dir" THEN {"Other"} ELSE {"Ok", "Other"}

(***************************************************************************)
(* The steps of a request                                                  *)
(***************************************************************************)
\* The router hands one of the requests to a clone of the handler
\* (NewHandler::new_handler).
Receive(requests) ==
    /\ pc = "idle"
    /\ \E req \in requests : request' = req
    /\ pc' = "handle"
    /\ instance' = Some(handler)
    /\ UNCHANGED <<handler, fs, client, peer, path, file_path, mime_type,
                   file, meta, result, response>>

\* handle taking the path out of the handler of the route instead of a
\* clone of it.
Handle_of_the_shared_handler ==
    /\ pc = "handle"
    /\ path' = IF handler.kind = "FileSystemHandler"
               THEN handler.path \o normalize_path(PathBuf_from_iter(<<>>, request.parts))
               ELSE handler.path
    /\ handler' = [handler EXCEPT !.path = <<>>]
    /\ instance' = None
    /\ pc' = "negotiate"
    /\ UNCHANGED <<fs, client, peer, request, file_path, mime_type, file,
                   meta, result, response>>

\* FileSystemHandler::handle resolves the request path under the root;
\* FileHandler::handle takes its own path. The instance is consumed.
Handle ==
    /\ pc = "handle"
    /\ path' = IF instance[1].kind = "FileSystemHandler"
               THEN instance[1].path
                    \o normalize_path(PathBuf_from_iter(<<>>, request.parts))
               ELSE instance[1].path
    /\ instance' = None
    /\ pc' = "negotiate"
    /\ UNCHANGED <<handler, fs, client, peer, request, file_path, mime_type,
                   file, meta, result, response>>

\* create_file_response up to the future it builds: the headers are taken,
\* the compressed variants looked up and the MIME type guessed.
Negotiate ==
    /\ pc = "negotiate"
    /\ file_path' = check_compressed_files(fs, path, request.accept_encoding)
    /\ mime_type' = mime_for_path(IF file_path' = None THEN path ELSE file_path'[1].path)
    /\ pc' = "open"
    /\ UNCHANGED <<handler, fs, client, instance, peer, request, path, file,
                   meta, result, response>>

\* tokio_fs::file::File::open(path)
Open ==
    /\ pc = "open"
    /\ \E outcome \in open_outcomes(fs, path) :
          IF outcome = "Ok"
          THEN /\ file' = Some(path)
               /\ pc' = "metadata"
               /\ UNCHANGED result
          ELSE /\ result' = Err(outcome)
               /\ pc' = "respond"
               /\ UNCHANGED file
    /\ UNCHANGED <<handler, fs, client, instance, peer, request, path,
                   file_path, mime_type, meta, response>>

\* Metadata starting the read whatever not_modified would say.
Metadata_read_unconditionally ==
    /\ pc = "metadata"
    /\ \E outcome \in metadata_outcomes :
          IF outcome = "Ok"
          THEN /\ meta' = Some(metadata_of(lookup(fs, file[1])))
               /\ pc' = "read"
               /\ UNCHANGED result
          ELSE /\ result' = Err(outcome)
               /\ pc' = "respond"
               /\ UNCHANGED meta
    /\ UNCHANGED <<handler, fs, client, instance, peer, request, path,
                   file_path, mime_type, file, response>>

\* file.metadata() and the closure that follows it: NotModified, or the
\* start of the read.
Metadata ==
    /\ pc = "metadata"
    /\ \E outcome \in metadata_outcomes :
          IF outcome = "Ok"
          THEN LET m == metadata_of(lookup(fs, file[1]))
               IN /\ meta' = Some(m)
                  /\ IF not_modified(m, request.if_none_match, request.if_modified_since)
                     THEN result' = FileResult_NotModified /\ pc' = "respond"
                     ELSE UNCHANGED result /\ pc' = "read"
          ELSE /\ result' = Err(outcome)
               /\ pc' = "respond"
               /\ UNCHANGED meta
    /\ UNCHANGED <<handler, fs, client, instance, peer, request, path,
                   file_path, mime_type, file, response>>

\* Vec::with_capacity(n): an empty buffer with room for n bytes.
Vec_with_capacity(n) == [data |-> <<>>, capacity |-> n]

\* A read that fills the room the buffer has and stops there.
read_to_end_exact(content, buf) ==
    [data |-> buf.data \o SubSeq(content, 1,
                 IF Len(content) < buf.capacity - Len(buf.data)
                 THEN Len(content) ELSE buf.capacity - Len(buf.data)),
     capacity |-> buf.capacity]

\* tokio_io::io::read_to_end: every byte of the file up to its end is
\* appended to the buffer, which grows when its capacity is too small.
read_to_end(content, buf) ==
    [data |-> buf.data \o content,
     capacity |-> IF buf.capacity < Len(buf.data) + Len(content)
                  THEN Len(buf.data) + Len(content) ELSE buf.capacity]

\* The read of the open file into a buffer sized by the metadata.
Read ==
    /\ pc = "read"
    /\ \E outcome \in read_outcomes(lookup(fs, file[1])) :
          IF outcome = "Ok"
          THEN result' = FileResult_Contents(
                   read_to_end(lookup(fs, file[1]).content,
                               Vec_with_capacity(meta[1].len)).data,
                   meta[1])
          ELSE result' = Err(outcome)
    /\ pc' = "respond"
    /\ UNCHANGED <<handler, fs, client, instance, peer, request, path,
                   file_path, mime_type, file, meta, response>>

\* data_future.then(...): the response made of the result.
Respond ==
    /\ pc = "respond"
    /\ response' = Some(
          CASE result.kind = "Contents" ->
                 append_headers(
                     create_response(StatusCode_Ok,
                                     Some([data |-> result.data, mime |-> mime_type])),
                     result.meta[1])
            [] result.kind = "NotModified" ->
                 create_response(StatusCode_NotModified, None)
            [] OTHER -> handler_error_response(error_status(result.err)))
    /\ client' = IF response'[1].etag # None
                 THEN [etag |-> response'[1].etag, path |-> path]
                 ELSE client
    /\ pc' = "done"
    /\ UNCHANGED <<handler, fs, instance, peer, request, path, file_path,
                   mime_type, file, meta, result>>

\* The response is sent and what the request owned is dropped.
Finish ==
    /\ pc = "done"
    /\ pc' = "idle"
    /\ request' = NoRequest
    /\ path' = <<>>
    /\ file_path' = None
    /\ mime_type' = ""
    /\ file' = None
    /\ meta' = None
    /\ result' = NoResult
    /\ response' = None
    /\ UNCHANGED <<handler, fs, client, instance, peer>>

Steps == Handle \/ Negotiate \/ Open \/ Metadata \/ Read \/ Respond \/ Finish

(***************************************************************************)
(* The files, handlers and requests the model draws from                   *)
(***************************************************************************)
StaticFiles == <<"static_files">>
PrivateFiles == <<"private_files">>
SecretTxt == <<"secret", "txt">>
DocHtml == <<"doc", "html">>
FileTxt == <<"file", "txt">>

\* The root of the test server, relative to the working directory, and an
\* absolute root.
Root == <<Normal(StaticFiles)>>
AbsoluteRoot == <<RootDir, Normal(<<"srv">>), Normal(StaticFiles)>>
Roots == {Root, AbsoluteRoot}

\* The file beside a root that no request may reach:
\* ../private_files/secret.txt as seen from the root.
OutsideSecret(root) ==
    SubSeq(root, 1, Len(root) - 1) \o <<Normal(PrivateFiles), Normal(SecretTxt)>>

Under(dir, name) == Append(dir, Normal(name))

\* The request segments: "", "..", ".", two names, and the segments a
\* percent-encoded slash makes, "/private_files" and "../private_files".
Segment(abs, comps) == [absolute |-> abs, comps |-> comps]
SegmentStrings ==
    {Segment(FALSE, <<>>), Segment(FALSE, <<ParentDir>>), Segment(FALSE, <<CurDir>>),
     Segment(FALSE, <<Normal(PrivateFiles)>>), Segment(FALSE, <<Normal(SecretTxt)>>),
     Segment(TRUE, <<Normal(PrivateFiles)>>),
     Segment(FALSE, <<ParentDir, Normal(PrivateFiles)>>)}

Epoch1 == Some(Time(1, 0))
Content17 == [i \in 1..17 |-> 0]

\* File systems for the resolution of paths: under the root a directory
\* private_files that may hold a secret.txt, readable or not, and a file
\* secret.txt; beside the root the secret that is not served.
PathFs(root, dir, secret) ==
    (root :> Dir(Epoch1)) @@ (Under(root, PrivateFiles) :> dir)
    @@ (Under(Under(root, PrivateFiles), SecretTxt) :> secret)
    @@ (Under(root, SecretTxt) :> File(TRUE, <<5>>, Epoch1))
    @@ (OutsideSecret(root) :> File(TRUE, <<9>>, Epoch1))

PathFileSystems(root) ==
    {PathFs(root, Absent, Absent)}
    \cup {PathFs(root, Dir(Epoch1), e) :
            e \in {Absent, File(TRUE, <<7>>, Epoch1), File(FALSE, <<7>>, Epoch1)}}

PathHandlers(root) == {FileSystemHandler(root), FileHandler(Under(root, SecretTxt))}

\* A FileHandler is mounted on a route without a glob: it gets no segments.
PathRequests ==
    {Request(parts, IfNoneMatch_Absent, None, None) :
        parts \in IF handler.kind = "FileHandler" THEN {<<>>}
                  ELSE SeqsUpTo(SegmentStrings, MaxSegments)}

\* What a task owns before it is given a request.
IdleTask ==
    [pc |-> "idle", instance |-> None, request |-> NoRequest, path |-> <<>>,
     file_path |-> None, mime_type |-> "", file |-> None, meta |-> None,
     result |-> NoResult, response |-> None]

InitWith(fileSystems, handlers) ==
    /\ fs \in fileSystems
    /\ handler \in handlers
    /\ client = NoValidators
    /\ peer = IdleTask
    /\ pc = "idle"
    /\ instance = None
    /\ request = NoRequest
    /\ path = <<>>
    /\ file_path = None
    /\ mime_type = ""
    /\ file = None
    /\ meta = None
    /\ result = NoResult
    /\ response = None

Init == \E root \in Roots : InitWith(PathFileSystems(root), PathHandlers(root))

Next == Receive(PathRequests) \/ Steps

Spec == Init /\ [][Next]_vars

(***************************************************************************)
(* Path resolution                                                         *)
(***************************************************************************)
Resolved == handler.kind = "FileSystemHandler" /\ pc \notin {"idle", "handle"}

Responded == response # None

\* Whether folding the components pops a ".." on an empty accumulator.
RECURSIVE pops_below_start(_, _)
pops_below_start(depth, comps) ==
    IF comps = <<>> THEN FALSE
    ELSE CASE Head(comps).kind = "Normal" -> pops_below_start(depth + 1, Tail(comps))
           [] Head(comps).kind = "ParentDir" ->
                depth = 0 \/ pops_below_start(depth - 1, Tail(comps))
           [] OTHER -> pops_below_start(depth, Tail(comps))

Traversal ==
    /\ handler.kind = "FileSystemHandler"
    /\ pops_below_start(0, components(PathBuf_from_iter(<<>>, request.parts)))

NamesAFile ==
    \E i \in 1..Len(request.parts) : \E j \in 1..Len(request.parts[i].comps) :
        request.parts[i].comps[j].kind = "Normal"

\* C1 as stated, for the segment sequences that hold a normal name: the path
\* FileSystemHandler::handle opens is a strict descendant of root (no
\* request is rejected before the path is opened).
C1_StrictDescendant ==
    (Resolved /\ NamesAFile)
        => IsPrefix(handler.path, path) /\ Len(path) > Len(handler.path)

\* C1, amended: the path FileSystemHandler::handle opens is root followed by
\* normal components only, so it is root itself or a descendant of root and
\* never the file beside root; the file opened is that path.
C1_WithinRoot ==
    Resolved =>
        /\ IsPrefix(handler.path, path)
        /\ \A i \in (Len(handler.path) + 1)..Len(path) : path[i].kind = "Normal"
        /\ path # OutsideSecret(handler.path)
        /\ file # None => file[1] = path

\* A request with a "..", an absolute segment and a name resolves below an
\* absolute root.
C1_Witness ==
    /\ Resolved
    /\ handler.path = AbsoluteRoot
    /\ \E i \in 1..Len(request.parts) : request.parts[i].absolute
    /\ \E i \in 1..Len(request.parts) : request.parts[i].comps = <<ParentDir>>
    /\ path = Under(Under(AbsoluteRoot, PrivateFiles), SecretTxt)

C10_FailuresMapped ==
    /\ pc = "open" => open_outcomes(fs, path) # {}
    /\ pc = "metadata" => file # None
    /\ pc = "read" => (file # None /\ meta # None /\ result.kind = "Pending")
    /\ pc \in {"respond", "done"} => result.kind # "Pending"
    /\ Responded <=> pc = "done"
    /\ Responded => result.kind \in {"Contents", "NotModified", "Err"}
    /\ (Responded /\ result.kind = "Err") =>
          /\ result.err = "NotFound" => response[1].status = 404
          /\ result.err = "PermissionDenied" => response[1].status = 403
          /\ result.err = "Other" => response[1].status = 500
          /\ response[1].body = <<>>
          /\ response[1].etag = None /\ response[1].last_modified = None
    /\ (Responded /\ response[1].status \in {200, 304}) => result.kind # "Err"
    /\ (Responded /\ ~exists(fs, path) /\ ~through_file(fs, path))
          => response[1].status = 404
    /\ (Responded /\ exists(fs, path) /\ ~through_file(fs, path)
          /\ ~lookup(fs, path).readable) => response[1].status = 403

\* A read that fails after the open and the metadata succeeded is answered
\* 500.
C10_Witness ==
    /\ Responded
    /\ result = Err("Other")
    /\ file # None /\ meta # None
    /\ response[1].status = 500

(***************************************************************************)
(* Conditional requests: two files under root whose sizes and modification *)
(* times vary, and requests with If-None-Match and If-Modified-Since       *)
(***************************************************************************)
\* modified() of doc.html: failing, before the epoch, and at whole and
\* fractional seconds after it.
ModifiedTimes ==
    {None, Some(Time(-1, 5)), Some(Time(1, 0)), Some(Time(1, 5)),
     Some(Time(2, 0)), Some(Time(17, 0))}

CacheFs(doc, txt) ==
    (Root :> Dir(Epoch1)) @@ (Under(Root, DocHtml) :> doc) @@ (Under(Root, FileTxt) :> txt)

CacheFileSystems ==
    {CacheFs(File(TRUE, c1, t1), File(TRUE, c2, t2)) :
        c1 \in {<<1>>, Content17}, t1 \in ModifiedTimes,
        c2 \in {<<1>>, Content17}, t2 \in {Some(Time(1, 0)), Some(Time(17, 0))}}

\* An entity tag no file has.
OtherTag == EntityTag_weak(<<"x">>)

\* The tags a client sends: one no file has, and the one it was last given.
CandidateTags == {OtherTag} \cup SeqToSet(client.etag)

IfNoneMatchValues ==
    {IfNoneMatch_Absent, IfNoneMatch_Any}
    \cup {IfNoneMatch_Items(items) :
            items \in SeqsUpTo(CandidateTags, MaxItems) \ {<<>>}}

\* An If-Modified-Since header holds whole seconds.
IfModifiedSinceValues == {None} \cup {Some(Time(t, 0)) : t \in {0, 1, 2}}

CacheRequests ==
    {Request(<<Segment(FALSE, <<Normal(n)>>)>>, inm, ims, None) :
        n \in {DocHtml, FileTxt}, inm \in IfNoneMatchValues,
        ims \in IfModifiedSinceValues}

InitCache == InitWith(CacheFileSystems, {FileSystemHandler(Root)})

NextCache == Receive(CacheRequests) \/ Steps

SpecCache == InitCache /\ [][NextCache]_vars

\* The metadata was taken and not_modified has decided.
Decided == meta # None

DecidedNotModified == Decided /\ result.kind = "NotModified"

\* The entity tag of the file at the request's path, as the file is now.
CurrentTag == entity_tag(metadata_of(lookup(fs, path)))

\* The modification time of the file at the request's path.
CurrentModified == lookup(fs, path).modified

\* C3: with a list of entity tags in If-None-Match the decision is
\* NotModified exactly when the file's current tag is in the list, whatever
\* If-Modified-Since holds; the answer is then 304, else 200 with the body;
\* and the tag of an earlier response for the same file gives NotModified.
C3_IfNoneMatchItems ==
    (Decided /\ request.if_none_match.kind = "Items") =>
        LET items == request.if_none_match.items
            listed == CurrentTag # None
                        /\ \E i \in 1..Len(items) : items[i] = CurrentTag[1]
        IN /\ DecidedNotModified <=> listed
           /\ (Responded /\ result.kind # "Err") =>
                 IF listed THEN response[1].status = 304
                 ELSE /\ response[1].status = 200
                      /\ response[1].body = lookup(fs, path).content
           /\ (client.path = path /\ client.etag # None /\ items = client.etag)
                 => DecidedNotModified

\* The tag of an earlier response is replayed with an If-Modified-Since that
\* lies before the file's modification time, and the answer is 304.
C3_Witness ==
    /\ Responded
    /\ client.path = path /\ client.etag # None
    /\ request.if_none_match = IfNoneMatch_Items(client.etag)
    /\ request.if_modified_since = Some(Time(0, 0))
    /\ CurrentModified = Some(Time(1, 5))
    /\ response[1].status = 304

\* C4 as stated: with the wildcard in If-None-Match the decision is
\* NotModified for any existing file, whatever If-Modified-Since holds.
C4_WildcardNotModified ==
    (Decided /\ request.if_none_match.kind = "Any") => DecidedNotModified

\* C5 as stated: without If-None-Match, If-Modified-Since = t gives
\* NotModified exactly when the file's modification time in whole seconds
\* is at most t; with neither header the decision is Fresh.
C5_IfModifiedSince ==
    (Decided /\ request.if_none_match.kind = "Absent" /\ CurrentModified # None) =>
        IF request.if_modified_since = None THEN ~DecidedNotModified
        ELSE DecidedNotModified
               <=> CurrentModified[1].secs <= request.if_modified_since[1].secs

\* C6: two entries of the file system that differ in size or modification
\* time never have the same entity tag, and the tag computed for a request
\* is the one an earlier response for the same file carried.
C6_EntityTagInjective ==
    /\ \A p, q \in DOMAIN fs :
          LET mp == metadata_of(fs[p])
              mq == metadata_of(fs[q])
          IN (entity_tag(mp) # None /\ entity_tag(mp) = entity_tag(mq))
                => (mp.len = mq.len /\ mp.modified = mq.modified)
    /\ (Decided /\ client.path = path /\ client.etag # None)
          => entity_tag(meta[1]) = client.etag
    /\ (Responded /\ response[1].status = 200) => response[1].etag = CurrentTag

\* doc.html of 1 byte modified at second 17 is read after file.txt of 17
\* bytes modified at second 1 was served, and its tag is another.
C6_Witness ==
    /\ pc = "respond"
    /\ metadata_of(fs[Under(Root, DocHtml)]) = [len |-> 1, modified |-> Some(Time(17, 0))]
    /\ metadata_of(fs[Under(Root, FileTxt)]) = [len |-> 17, modified |-> Some(Time(1, 0))]
    /\ path = Under(Root, DocHtml)
    /\ client.path = Under(Root, FileTxt) /\ client.etag # None
    /\ result.kind = "Contents"
    /\ entity_tag(result.meta[1]) # None
    /\ entity_tag(result.meta[1]) # client.etag

DocHtmlGz == <<"doc", "html", "gz">>
DocHtmlBr == <<"doc", "html", "br">>
DocDotGz == <<"doc", "", "gz">>
DocDotBr == <<"doc", "", "br">>

EncFs(gz, br, dotgz, dotbr) ==
    (Root :> Dir(Epoch1)) @@ (Under(Root, DocHtml) :> File(TRUE, <<1>>, Epoch1))
    @@ (Under(Root, DocHtmlGz) :> gz) @@ (Under(Root, DocHtmlBr) :> br)
    @@ (Under(Root, DocDotGz) :> dotgz) @@ (Under(Root, DocDotBr) :> dotbr)

EncFileSystems ==
    {EncFs(gz, br, dotgz, dotbr) :
        gz \in {Absent, File(TRUE, <<2>>, Epoch1)},
        br \in {Absent, File(TRUE, <<3>>, Epoch1)},
        dotgz \in {Absent, File(TRUE, <<4>>, Epoch1)},
        dotbr \in {Absent, File(TRUE, <<5>>, Epoch1)}}

\* Quality values are thousandths: q=0.5 and q=1.0.
AcceptItems ==
    {QualityItem(e, q) : e \in {"gzip", "br", "deflate"}, q \in {500, 1000}}

EncRequests ==
    {Request(<<Segment(FALSE, <<Normal(DocHtml)>>)>>, IfNoneMatch_Absent, None, accept) :
        accept \in {None} \cup {Some(items) : items \in SeqsUpTo(AcceptItems, MaxAccept)}}

InitEnc == InitWith(EncFileSystems, {FileSystemHandler(Root)})

NextEnc == Receive(EncRequests) \/ Steps

SpecEnc == InitEnc /\ [][NextEnc]_vars

\* base + suffix: the file name with ".gz" or ".br" appended.
Sibling(p, suffix) == [p EXCEPT ![Len(p)] = Normal(p[Len(p)].name \o <<suffix>>)]

\* C7 as stated: a response has a Content-Encoding only when the file read
\* is the existing sibling of that encoding; with gzip accepted and
\* doc.html.gz present the response is 200 with Content-Encoding gzip and
\* the sibling's bytes; with the sibling absent, or Accept-Encoding absent
\* or empty, the base file is served with no Content-Encoding.
C7_EncodedVariantServed ==
    (Responded /\ result.kind = "Contents") =>
        LET accept == request.accept_encoding
            gz == Sibling(path, "gz")
        IN /\ response[1].content_encoding = Some("gzip")
                => (exists(fs, gz) /\ response[1].body = lookup(fs, gz).content)
           /\ (accept = Some(<<QualityItem("gzip", 1000)>>) /\ exists(fs, gz))
                => /\ response[1].status = 200
                   /\ response[1].content_encoding = Some("gzip")
                   /\ response[1].body = lookup(fs, gz).content
           /\ (accept \in {None, Some(<<>>)}
               \/ (accept = Some(<<QualityItem("gzip", 1000)>>) /\ ~exists(fs, gz)))
                => /\ response[1].status = 200
                   /\ response[1].content_encoding = None
                   /\ response[1].body = lookup(fs, path).content

\* Whether item a ranks before item b: the higher quality, and of equal
\* qualities brotli before gzip.
RanksBefore(a, b) ==
    \/ a.quality > b.quality
    \/ a.quality = b.quality /\ a.item = "br" /\ b.item = "gzip"

\* C8 as stated, a sibling being the file check_compressed_files looks for:
\* of the requested and supported encodings whose sibling exists, the one
\* selected is one that no other ranks before; none is selected only when
\* there is none.
C8_QualityOrderedSelection ==
    (pc \notin {"idle", "handle", "negotiate"} /\ request.accept_encoding # None) =>
        LET items == request.accept_encoding[1]
            found == {i \in 1..Len(items) :
                        /\ items[i].item \in {"gzip", "br"}
                        /\ exists(fs, with_extension(path, encoding_extension(items[i].item)[1]))}
        IN IF found = {} THEN file_path = None
           ELSE /\ file_path # None
                /\ \E j \in found :
                      /\ items[j].item = file_path[1].encoding
                      /\ \A i \in found : ~RanksBefore(items[i], items[j])

(***************************************************************************)
(* Content types                                                           *)
(***************************************************************************)
\* The type the extension of a file name stands for.
TypeOfExtension(name) ==
    LET ext == IF Len(name) < 2 THEN "" ELSE name[Len(name)]
    IN CASE ext = "html" -> "text/html"
         [] ext = "txt" -> "text/plain"
         [] ext = "css" -> "text/css"
         [] ext = "js" -> "application/javascript"
         [] OTHER -> "application/octet-stream"

\* C11 as stated: the Content-Type of a 200 response is the type of the
\* extension of the requested base file, whatever variant was found beside
\* it (doc.html is text/html also when a compressed variant exists).
C11_ContentTypeOfBaseFile ==
    (Responded /\ response[1].status = 200)
        => response[1].content_type = Some(TypeOfExtension(path[Len(path)].name))

(***************************************************************************)
(* The order of the steps of a request                                     *)
(***************************************************************************)
\* C12: a request moves from resolution to negotiation, to the open, to the
\* metadata and to the decision, in that order; the read starts only in the
\* step that took the metadata and decided Fresh, content comes only of a
\* read, NotModified only of the decision, and a failed open or metadata
\* goes to the response without a read; a 304 response is made of
\* NotModified and holds no content.
C12_StepsInOrder ==
    /\ [](Responded /\ response[1].status = 304
            => (result.kind = "NotModified" /\ result.data = <<>> /\ meta # None))
    /\ [](pc = "read" => (path # <<>> /\ file = Some(path) /\ meta # None
                          /\ result.kind = "Pending"))
    /\ [][/\ (pc' # pc /\ pc' = "negotiate") => pc = "handle"
          /\ (pc' # pc /\ pc' = "open") => pc = "negotiate"
          /\ (pc' # pc /\ pc' = "metadata") => (pc = "open" /\ file' = Some(path))
          /\ (pc' # pc /\ pc' = "read") =>
                /\ pc = "metadata"
                /\ meta = None /\ meta' # None
                /\ ~not_modified(meta'[1], request.if_none_match,
                                 request.if_modified_since)
          /\ (result'.kind = "NotModified" /\ result.kind # "NotModified") =>
                /\ pc = "metadata" /\ pc' = "respond"
                /\ not_modified(meta'[1], request.if_none_match,
                                request.if_modified_since)
          /\ (result'.kind = "Contents" /\ result.kind # "Contents") => pc = "read"
          /\ (pc \in {"open", "metadata"} /\ pc' = "respond")
                => result'.kind \in {"NotModified", "Err"}
          /\ (pc' # pc /\ pc' = "respond") => pc \in {"open", "metadata", "read"}
         ]_vars

\* A conditional request was answered 304 after the metadata was taken.
C12_Witness ==
    /\ Responded
    /\ response[1].status = 304
    /\ request.if_modified_since # None
    /\ file # None /\ meta # None
    /\ result.kind = "NotModified"

(***************************************************************************)
(* A file written while it is served                                       *)
(***************************************************************************)
\* What another process leaves in a file, and when.
WriteContents == {<<>>, <<1>>, <<1, 2, 3>>}
WriteTimes == {Some(Time(1, 0)), Some(Time(2, 0))}

\* Another process rewrites a file in place: the open handle of a request
\* reads what is in the file when it reads.
Write ==
    /\ \E p \in DOMAIN fs, c \in WriteContents, t \in WriteTimes :
          /\ fs[p].kind = "file"
          /\ fs[p].content # c
          /\ fs' = [fs EXCEPT ![p] = File(fs[p].readable, c, t)]
    /\ UNCHANGED <<handler, client, pc, instance, peer, request, path,
                   file_path, mime_type, file, meta, result, response>>

WriteFileSystems ==
    {(Root :> Dir(Epoch1)) @@ (Under(Root, DocHtml) :> File(TRUE, c, Epoch1)) :
        c \in WriteContents}

WriteRequests ==
    {Request(<<Segment(FALSE, <<Normal(name)>>)>>, IfNoneMatch_Absent, ims, None) :
        name \in {DocHtml, FileTxt}, ims \in {None, Some(Time(1, 0))}}

InitWrite == InitWith(WriteFileSystems, {FileSystemHandler(Root)})

NextWrite == Receive(WriteRequests) \/ Steps \/ Write

SpecWrite == InitWrite /\ [][NextWrite]_vars

\* C13: whatever length the metadata gave, the read of a file can succeed,
\* a read that succeeds gives exactly the bytes the file holds when it is
\* read, a read fails only of the I/O error of the file system, and the
\* response made of the bytes read is 200 with those bytes as its body.
C13_BodyIsWhatWasRead ==
    /\ []((pc = "read" /\ lookup(fs, file[1]).kind = "file")
            => "Ok" \in read_outcomes(lookup(fs, file[1])))
    /\ []((Responded /\ result.kind = "Contents")
            => (response[1].status = 200 /\ response[1].body = result.data))
    /\ [][(pc = "read" /\ pc' # pc) =>
            /\ pc' = "respond"
            /\ \/ /\ result'.kind = "Contents"
                  /\ result'.data = lookup(fs, file[1]).content
                  /\ result'.meta = meta
               \/ result' = Err("Other")
         ]_vars

\* A 200 response whose body is longer than the length the metadata gave.
C13_Witness ==
    /\ Responded
    /\ response[1].status = 200
    /\ meta # None
    /\ meta[1].len < Len(response[1].body)
    /\ meta[1].len > 0

(***************************************************************************)
(* Two requests in flight                                                  *)
(***************************************************************************)
\* What the running task owns.
Locals ==
    [pc |-> pc, instance |-> instance, request |-> request, path |-> path,
     file_path |-> file_path, mime_type |-> mime_type, file |-> file,
     meta |-> meta, result |-> result, response |-> response]

\* The running task is suspended and the other task runs.
Switch ==
    /\ peer' = Locals
    /\ pc' = peer.pc
    /\ instance' = peer.instance
    /\ request' = peer.request
    /\ path' = peer.path
    /\ file_path' = peer.file_path
    /\ mime_type' = peer.mime_type
    /\ file' = peer.file
    /\ meta' = peer.meta
    /\ result' = peer.result
    /\ response' = peer.response
    /\ UNCHANGED <<handler, fs, client>>

\* The client is gone before the future of create_file_response is done:
\* the future is dropped with the file and the buffer it holds.
Abandon ==
    /\ pc \in {"open", "metadata", "read"}
    /\ pc' = "idle"
    /\ request' = NoRequest
    /\ path' = <<>>
    /\ file_path' = None
    /\ mime_type' = ""
    /\ file' = None
    /\ meta' = None
    /\ result' = NoResult
    /\ UNCHANGED <<handler, fs, client, instance, peer, response>>

ConcFileSystems ==
    {(Root :> Dir(Epoch1)) @@ (Under(Root, DocHtml) :> File(TRUE, <<1>>, Epoch1))
        @@ (Under(Root, FileTxt) :> txt) :
        txt \in {Absent, File(TRUE, <<2>>, Some(Time(2, 0)))}}

ConcHandlers == {FileSystemHandler(Root), FileHandler(Under(Root, FileTxt))}

ConcRequests ==
    {Request(IF handler.kind = "FileHandler" THEN <<>>
             ELSE <<Segment(FALSE, <<Normal(name)>>)>>,
             IfNoneMatch_Absent, ims, None) :
        name \in {DocHtml, FileTxt}, ims \in {None, Some(Time(1, 0))}}

InitConc == InitWith(ConcFileSystems, ConcHandlers)

NextConc == Receive(ConcRequests) \/ Steps \/ Switch \/ Abandon

SpecConc == InitConc /\ [][NextConc]_vars

\* The responses a request gets of a handler over a file system when no
\* other request is in flight: one for each outcome of its open, metadata
\* and read.
ResponsesAlone(h, f, req) ==
    LET p == IF h.kind = "FileSystemHandler"
             THEN h.path \o normalize_path(PathBuf_from_iter(<<>>, req.parts))
             ELSE h.path
        found == check_compressed_files(f, p, req.accept_encoding)
        mime == mime_for_path(IF found = None THEN p ELSE found[1].path)
        m == metadata_of(lookup(f, p))
        failed == (open_outcomes(f, p) \ {"Ok"})
                  \cup (IF "Ok" \in open_outcomes(f, p)
                        THEN (metadata_outcomes \ {"Ok"})
                             \cup (IF not_modified(m, req.if_none_match,
                                                   req.if_modified_since)
                                   THEN {}
                                   ELSE read_outcomes(lookup(f, p)) \ {"Ok"})
                        ELSE {})
        served == IF "Ok" \notin open_outcomes(f, p) THEN {}
                  ELSE IF not_modified(m, req.if_none_match, req.if_modified_since)
                  THEN {create_response(StatusCode_NotModified, None)}
                  ELSE IF "Ok" \notin read_outcomes(lookup(f, p)) THEN {}
                  ELSE {append_headers(
                            create_response(StatusCode_Ok,
                                Some([data |-> lookup(f, p).content, mime |-> mime])),
                            m)}
    IN served \cup {handler_error_response(error_status(k)) : k \in failed}

\* C14: no step changes the handler of the route or the file system; a
\* task works on a clone of the handler; a step of one task leaves what the
\* other task owns as it is, also when the request is abandoned; and
\* the response of either task is one the same request gets when it is the
\* only request in flight.
C14_NoInterference ==
    /\ [][handler' = handler /\ fs' = fs]_vars
    /\ [][peer' = peer \/ (peer' = Locals /\ Locals' = peer)]_vars
    /\ [](instance # None => instance[1] = handler)
    /\ [](pc = "done" => response[1] \in ResponsesAlone(handler, fs, request))
    /\ [](peer.pc = "done"
            => peer.response[1] \in ResponsesAlone(handler, fs, peer.request))

\* A request is answered 200 while the other task is suspended in the read
\* of another request.
C14_Witness ==
    /\ pc = "done"
    /\ response[1].status = 200
    /\ peer.pc = "read"
    /\ peer.request # request
    /\ peer.path # path
====
